---- MODULE Spec2Model ----
(***************************************************************************)
(* The public-IP publishing loop of scripts/public_ip.py: main drives      *)
(* get_public_ip, post_to_redis and get_redis_client.  Every network       *)
(* operation (an HTTP request to a lookup service; a ping, connect or set  *)
(* on the store) is one step, and the environment (the store going down or *)
(* coming back, a connection handle becoming invalid) moves between steps. *)
(* The clock publishing loop of scripts/app.py (main driving               *)
(* current_time.show_world_timezones, whose get_redis_client and           *)
(* post_to_redis are copies of those of public_ip.py) and the IP monitor   *)
(* of scripts/whatsmyip.py are further programs: a run is a run of one of  *)
(* them.                                                                   *)
(***************************************************************************)
EXTENDS Naturals, Sequences, FiniteSets

VARIABLES
    prog,                \* which script the process runs
    pc,                  \* position of the main thread
    consecutive_errors,  \* main
    last_successful_ip,  \* main
    redis_client,        \* main's local handle
    public_ip,           \* main: result of the last get_public_ip
    svc, attempt,        \* get_public_ip: index into ip_services, retry index
    p_client, p_attempt, \* post_to_redis: its redis_client parameter, retry index
    _redis_client,       \* module-level cached handle
    grc_ret,             \* which call site get_redis_client returns to
    swt_ret,             \* which call of show_world_timezones is running
    redis_host,          \* whether REDIS_HOST is set
    storeUp,             \* environment: the store accepts connections
    alive,               \* environment: handles whose connection is valid
    store,               \* environment: public_ip field of the record under the key
    \* history of the current iteration, read only by the properties
    tracing,             \* whether the probe's requests are being recorded
    reqs,                \* requests sent to each service by the current probe
    errored,             \* services the current probe left through a break
    last_resp,           \* the response to the probe's latest request
    probe_wait,          \* seconds the probe slept after its latest request
    errors_at_start,     \* consecutive_errors when the iteration began
    last_at_start,       \* last_successful_ip when the iteration began
    other_failures,      \* a probe failure or exception is part of the count
    outcome,             \* how the iteration ended
    post_result,         \* what post_to_redis returned in this iteration
    slept,               \* seconds of the main loop's sleep in this iteration
    writes,              \* records the store received in this iteration
    netops,              \* ping/connect/set operations sent to the store
    set_conn_fails,      \* set calls that raised redis.ConnectionError
    set_errors,          \* set calls that raised another exception
    checked,             \* handles that passed a ping since the latest failed set
    bare,                \* kinds of set issued on a handle not in checked
    disturbed,           \* the store was down, or a handle died during the publish
    stopped_at,          \* where the main thread was when it was interrupted
    \* IPMonitor (scripts/whatsmyip.py).  Unit 0 is the thread that calls
    \* start_monitoring and stop_monitoring, units 1.. are the threads that
    \* start_monitoring creates.
    m_pc,                \* position of each unit in the monitor's code
    running,             \* self.running
    current_ip,          \* self.current_ip
    thread,              \* self.thread
    m_svc,               \* get_public_ip, per unit: index into self.ip_services
    m_ip,                \* check_ip, per unit: the result of get_public_ip
    m_reqs,              \* history: requests sent to each service by the unit's probe
    m_resp,              \* history: the response to the unit's latest request
    m_note,              \* history: what the latest check_ip reported
    m_old,               \* history: the old address the latest "changed" report named
    m_slept,             \* history: the thread has slept since its latest check_ip
    sync_checks,         \* history: check_ip calls finished inside the latest start
    last_call            \* history: the latest call of the monitor that returned

vars == <<prog, swt_ret, post_result, pc, consecutive_errors, last_successful_ip, redis_client, public_ip,
          svc, attempt, p_client, p_attempt, _redis_client, grc_ret,
          redis_host, storeUp, alive, store,
          tracing, reqs, errored, last_resp, probe_wait, errors_at_start, last_at_start,
          other_failures, outcome, slept, writes, netops,
          set_conn_fails, set_errors, checked, bare, disturbed,
          stopped_at,
          m_pc, running, current_ip, thread, m_svc, m_ip, m_reqs, m_resp,
          m_note, m_old, m_slept, sync_checks, last_call>>

monVars == <<m_pc, running, current_ip, thread, m_svc, m_ip, m_reqs, m_resp,
             m_note, m_old, m_slept, sync_checks, last_call>>

----------------------------------------------------------------------------
(* Bounds *)

\* iterations are not started once the failure counter has reached MaxErrors
MaxErrors == 12
\* start_monitoring is not entered once it has created MaxThreads threads
MaxThreads == 2

(* Program constants *)

max_consecutive_errors == 10
sleep_interval == 60
cooldown == 300
backoff_cap == 60
\* post_to_redis(redis_client, public_ip, max_retries=3)
max_retries == 3
\* get_public_ip(max_retries=3)
probe_max_retries == 3
ip_services == <<"api.ipify.org", "ifconfig.me", "icanhazip.com">>
\* IPMonitor.__init__: self.ip_services
m_ip_services == <<"api.ipify.org", "ifconfig.me", "icanhazip.com">>
\* IPMonitor(check_interval=3600)
check_interval == 3600
\* whatsmyip.py line 29: requests.get(service, timeout=5)
request_timeout == 5
\* whatsmyip.py line 81: self.thread.join(timeout=2)
join_timeout == 2

\* the units that run the monitor's code
Caller == 0
Threads == 1..MaxThreads
Units == {Caller} \cup Threads

\* Python's None for a handle; handles are small integers
None == 0
Handles == {1, 2, 3}
\* Python's None (and the empty string) for an address
NoIp == <<>>

----------------------------------------------------------------------------
(* Response bodies are strings, modelled as sequences of characters *)

Whitespace == {" ", "\n"}

Body1 == <<"1", ".", "1", ".", "1", ".", "1">>
Body2 == <<"2", ".", "2", ".", "2", ".", "2", "\n">>
BodyShort == <<"1", ".", "1">>
BodyBlank == <<"\n">>

Bodies == {Body1, Body2, BodyShort, BodyBlank}

RECURSIVE LStrip(_)
LStrip(s) ==
    IF s # <<>> /\ Head(s) \in Whitespace THEN LStrip(Tail(s)) ELSE s

RECURSIVE RStrip(_)
RStrip(s) ==
    IF s # <<>> /\ s[Len(s)] \in Whitespace
    THEN RStrip(SubSeq(s, 1, Len(s) - 1))
    ELSE s

\* str.strip()
Strip(s) == RStrip(LStrip(s))

\* str.split(sep): the pieces between the separators
RECURSIVE Split(_, _)
Split(s, sep) ==
    IF \A i \in 1..Len(s) : s[i] # sep
    THEN <<s>>
    ELSE LET i == CHOOSE k \in 1..Len(s) :
                      s[k] = sep /\ \A j \in 1..(k - 1) : s[j] # sep
         IN  <<SubSeq(s, 1, i - 1)>> \o Split(SubSeq(s, i + 1, Len(s)), sep)

\* public_ip.py line 86: ip and len(ip.split('.')) == 4
ValidIp(ip) == ip # <<>> /\ Len(Split(ip, ".")) = 4

Min(a, b) == IF a < b THEN a ELSE b

Responses ==
    [kind : {"timeout", "error", "non200"}, body : {<<>>}]
        \cup [kind : {"body"}, body : Bodies]

----------------------------------------------------------------------------
(* Initial state: the process has just started scripts/public_ip.py *)

NoReqs == [k \in 1..Len(ip_services) |-> 0]
NoResp == [kind |-> "none", body |-> <<>>]

\* IPMonitor.__init__, lines 14-18, before anything runs
MonitorIdle ==
    /\ running = FALSE
    /\ current_ip = NoIp
    /\ thread = None
    /\ m_svc = [u \in Units |-> 1]
    /\ m_ip = [u \in Units |-> NoIp]
    /\ m_reqs = [u \in Units |-> NoReqs]
    /\ m_resp = [u \in Units |-> NoResp]
    /\ m_note = "none"
    /\ m_old = NoIp
    /\ m_slept = [t \in Threads |-> FALSE]
    /\ sync_checks = 0
    /\ last_call = "none"

\* the process is scripts/public_ip.py, scripts/app.py or scripts/whatsmyip.py
Start(trace, script) ==
    /\ prog = script
    /\ pc = CASE script = "public_ip" -> "init"
              [] script = "app" -> "a_first"
              [] OTHER -> "off"
    /\ m_pc = [u \in Units |-> IF script # "whatsmyip" THEN "off"
                                ELSE IF u = Caller THEN "idle" ELSE "unborn"]
    /\ stopped_at = "none"
    /\ swt_ret = "none"
    /\ post_result = "none"
    /\ MonitorIdle
    /\ consecutive_errors = 0
    /\ last_successful_ip = NoIp
    /\ redis_client = None
    /\ public_ip = NoIp
    /\ svc = 1 /\ attempt = 0
    /\ p_client = None /\ p_attempt = 0
    /\ _redis_client = None
    /\ grc_ret = "none"
    /\ redis_host \in BOOLEAN
    /\ storeUp \in BOOLEAN
    /\ alive = {}
    /\ store = NoIp
    /\ tracing = trace
    /\ reqs = NoReqs
    /\ errored = {}
    /\ last_resp = NoResp
    /\ probe_wait = 0
    /\ errors_at_start = 0
    /\ last_at_start = NoIp
    /\ other_failures = FALSE
    /\ outcome = "none"
    /\ slept = 0
    /\ writes = 0 /\ netops = 0 /\ set_conn_fails = 0 /\ set_errors = 0
    /\ checked = {} /\ bare = {}
    /\ disturbed = FALSE

Init == \E script \in {"public_ip", "app"} : Start(FALSE, script)

probeVars == <<svc, attempt, reqs, errored, last_resp, probe_wait>>
postHist == <<writes, set_conn_fails, set_errors>>
checkHist == <<checked, bare>>
constVars == <<redis_host, tracing, prog>>
iterStart == <<errors_at_start, last_at_start>>

\* the main thread is inside post_to_redis, or inside the get_redis_client
\* call that show_world_timezones makes for it
InPublish ==
    \/ pc \in {"post", "set"}
    \/ pc \in {"grc", "grc_connect"} /\ grc_ret \in {"post_entry", "post_retry", "swt"}

\* what is written under the key: the address, or the table of times
ClockRecord == <<"utc_timestamp">>
Payload == IF prog = "app" THEN ClockRecord ELSE public_ip

\* a handle that no variable holds any more is forgotten
Gc(a, r, p, c) == a \cap {r, p, c}

\* an operation on handle h reaches the store
Healthy(h) == storeUp /\ h \in alive

----------------------------------------------------------------------------
(* The decisions of main, get_public_ip, get_redis_client and post_to_redis *)

\* changed: the address is published whether or not it is new
AlwaysPublish(ip, last) == TRUE

\* line 175: if public_ip != last_successful_ip
NeedsPublish(ip, last) == ip # last

\* lines 178, 183: consecutive_errors = 0
AfterSuccess(e) == 0

\* changed: the unchanged-address branch forgets to reset the counter
AfterSkipKeep(e) == e

AfterSkip(e) == 0

\* lines 180, 186, 192: consecutive_errors += 1
AfterFailure(e) == e + 1

\* changed: the address is remembered before the publish is known to have worked
KnownBeforePost(ok, ip, last) == ip

\* lines 176-177: last_successful_ip is assigned only when the publish succeeded
KnownAfterPost(ok, ip, last) == IF ok THEN ip ELSE last

\* line 195: if consecutive_errors >= max_consecutive_errors
Escalate(e) == e >= max_consecutive_errors

\* line 203: backoff_time = min(2 ** consecutive_errors, 60)
BackoffTime(e) == Min(2 ^ e, backoff_cap)

\* changed: the probe gives up after the first service
FirstServiceOnly(s) == TRUE

\* line 80: for service in ip_services, left after the last one
LastService(s) == s = Len(ip_services)

\* changed: the inner loop of the probe runs once more
LastAttemptLate(a) == a >= probe_max_retries

\* line 81: for attempt in range(max_retries), left after the last one
LastAttempt(a) == a + 1 >= probe_max_retries

\* line 93: time.sleep(2 ** attempt)
RetryWait(a) == 2 ^ a

\* changed: the cached handle is handed out without a ping
PingSkipped(h) == TRUE

\* lines 31-37: the ping of the cached handle
PingOk(h) == Healthy(h)

\* changed: the connect is attempted without a host
HostAssumed == FALSE

\* line 44: if not redis_host
HostMissing == ~redis_host

\* line 130: if attempt < max_retries - 1
MayRetry(a) == a < max_retries - 1

\* changed: the exception leaves main
Uncaught == "dead"

\* line 191: except Exception, inside the while loop
Caught == "handler"

\* changed: the retry goes out on the handle that has just failed
RetryKeepsClient(client, old) == old

\* line 132: redis_client = get_redis_client()
RetryClient(client, old) == client

----------------------------------------------------------------------------
(* main *)

\* line 152: redis_client = get_redis_client()
MainStart ==
    /\ pc = "init"
    /\ UNCHANGED <<monVars, stopped_at, swt_ret, checkHist>>
    /\ pc' = "grc"
    /\ grc_ret' = "main_init"
    /\ UNCHANGED <<consecutive_errors, last_successful_ip, redis_client, public_ip,
                   p_client, p_attempt, _redis_client, constVars, storeUp, alive,
                   store, iterStart, other_failures, outcome, post_result, slept, netops,
                   disturbed>>
    /\ UNCHANGED <<probeVars, postHist>>

\* lines 164-170: top of the loop, entering get_public_ip.  public_ip is
\* not read again before line 170 assigns it.
IterTop ==
    /\ pc = "iter"
    /\ UNCHANGED <<monVars, stopped_at, swt_ret>>
    /\ prog = "public_ip"
    /\ consecutive_errors < MaxErrors
    /\ pc' = "request"
    /\ svc' = 1 /\ attempt' = 0
    /\ reqs' = NoReqs
    /\ errored' = {}
    /\ last_resp' = NoResp
    /\ probe_wait' = 0
    /\ errors_at_start' = consecutive_errors
    /\ last_at_start' = last_successful_ip
    /\ outcome' = "none"
    /\ post_result' = "none"
    /\ slept' = 0
    /\ writes' = 0 /\ netops' = 0 /\ set_conn_fails' = 0 /\ set_errors' = 0
    /\ checked' = {} /\ bare' = {}
    /\ disturbed' = ~storeUp
    /\ public_ip' = NoIp
    /\ UNCHANGED <<consecutive_errors, last_successful_ip, redis_client,
                   p_client, p_attempt, _redis_client, grc_ret, constVars, storeUp,
                   alive, store, other_failures>>

\* get_public_ip, lines 80-101: one requests.get and what the loops do with it
Request ==
    /\ pc = "request"
    /\ UNCHANGED <<monVars, stopped_at, swt_ret, checkHist>>
    /\ \E resp \in Responses :
        LET ip == Strip(resp.body)
            accepted == resp.kind = "body" /\ ValidIp(ip)
            broke == resp.kind = "error"
            leave == broke \/ LastAttempt(attempt)
            done == accepted \/ (leave /\ LastService(svc))
        IN  /\ reqs' = IF tracing THEN [reqs EXCEPT ![svc] = @ + 1] ELSE reqs
            /\ errored' = IF tracing /\ broke THEN errored \cup {svc} ELSE errored
            /\ last_resp' = IF tracing THEN resp ELSE last_resp
            /\ probe_wait' = IF tracing /\ resp.kind = "timeout" /\ ~LastAttempt(attempt)
                              THEN RetryWait(attempt)
                              ELSE 0
            /\ IF done
               THEN /\ pc' = "branch"
                    /\ public_ip' = IF accepted THEN ip ELSE NoIp
                    /\ UNCHANGED <<svc, attempt>>
               ELSE /\ pc' = "request"
                    /\ public_ip' = public_ip
                    /\ IF leave
                       THEN svc' = svc + 1 /\ attempt' = 0
                       ELSE svc' = svc /\ attempt' = attempt + 1
    /\ UNCHANGED <<consecutive_errors, last_successful_ip, redis_client,
                   p_client, p_attempt, _redis_client, grc_ret, constVars, storeUp,
                   alive, store, iterStart, other_failures, outcome, post_result, slept, netops,
                   disturbed>>
    /\ UNCHANGED postHist

\* lines 171-186: what main does with the probe's result
Branch ==
    /\ pc = "branch"
    /\ UNCHANGED <<monVars, stopped_at, swt_ret, checkHist>>
    /\ svc' = 1 /\ attempt' = 0
    /\ reqs' = NoReqs
    /\ errored' = {}
    /\ last_resp' = NoResp
    /\ probe_wait' = 0
    /\ IF public_ip # NoIp
       THEN IF NeedsPublish(public_ip, last_successful_ip)
            THEN /\ pc' = "post"
                 /\ p_client' = redis_client
                 /\ UNCHANGED <<consecutive_errors, outcome, post_result, other_failures>>
            ELSE /\ pc' = "sleep"
                 /\ consecutive_errors' = AfterSkip(consecutive_errors)
                 /\ outcome' = "skip"
                 /\ post_result' = post_result
                 /\ other_failures' = FALSE
                 /\ UNCHANGED p_client
       ELSE /\ pc' = "sleep"
            /\ consecutive_errors' = AfterFailure(consecutive_errors)
            /\ outcome' = "probe_fail"
            /\ post_result' = post_result
            /\ other_failures' = TRUE
            /\ UNCHANGED p_client
    /\ UNCHANGED <<last_successful_ip, redis_client, public_ip, p_attempt,
                   _redis_client, grc_ret, constVars, storeUp, alive, store,
                   iterStart, slept, netops, disturbed>>
    /\ UNCHANGED postHist

\* line 189: time.sleep(sleep_interval)
Sleep ==
    /\ pc = "sleep"
    /\ UNCHANGED <<monVars, stopped_at, swt_ret, checkHist>>
    /\ pc' = "iter"
    /\ slept' = sleep_interval
    /\ UNCHANGED <<consecutive_errors, last_successful_ip, redis_client, public_ip,
                   p_client, p_attempt, _redis_client, grc_ret, constVars, storeUp,
                   alive, store, iterStart, other_failures, outcome, post_result, netops,
                   disturbed>>
    /\ UNCHANGED <<probeVars, postHist>>

\* lines 191-193 (app.py lines 57-59): an exception leaves get_public_ip or
\* post_to_redis (show_world_timezones)
Except ==
    /\ pc = "request" \/ InPublish
    /\ UNCHANGED <<monVars, stopped_at, swt_ret, checkHist>>
    /\ swt_ret # "first"
    /\ pc' = Caught
    /\ grc_ret' = "none"
    /\ consecutive_errors' = AfterFailure(consecutive_errors)
    /\ outcome' = "exception"
    /\ post_result' = post_result
    /\ other_failures' = TRUE
    /\ svc' = 1 /\ attempt' = 0
    /\ reqs' = NoReqs
    /\ errored' = {}
    /\ last_resp' = NoResp
    /\ probe_wait' = 0
    /\ p_client' = None /\ p_attempt' = 0
    /\ alive' = Gc(alive, redis_client, None, _redis_client)
    /\ UNCHANGED <<last_successful_ip, redis_client, public_ip, _redis_client,
                   constVars, storeUp, store, iterStart, slept,
                   netops, disturbed>>
    /\ UNCHANGED postHist

\* lines 195-200: the long wait, then get_redis_client(); app.py lines
\* 61-64: the long wait alone
Cooldown ==
    /\ pc = "handler"
    /\ UNCHANGED <<monVars, stopped_at, swt_ret, checkHist>>
    /\ Escalate(consecutive_errors)
    /\ slept' = cooldown
    /\ consecutive_errors' = 0
    /\ other_failures' = FALSE
    /\ IF prog = "app"
       THEN pc' = "iter" /\ grc_ret' = grc_ret
       ELSE pc' = "grc" /\ grc_ret' = "main_cooldown"
    /\ UNCHANGED <<last_successful_ip, redis_client, public_ip, p_client, p_attempt,
                   _redis_client, constVars, storeUp, alive, store,
                   iterStart, outcome, post_result, netops, disturbed>>
    /\ UNCHANGED <<probeVars, postHist>>

\* lines 201-205: exponential backoff
Backoff ==
    /\ pc = "handler"
    /\ UNCHANGED <<monVars, stopped_at, swt_ret, checkHist>>
    /\ ~Escalate(consecutive_errors)
    /\ slept' = BackoffTime(consecutive_errors)
    /\ pc' = "iter"
    /\ UNCHANGED <<consecutive_errors, last_successful_ip, redis_client, public_ip,
                   p_client, p_attempt, _redis_client, grc_ret, constVars, storeUp,
                   alive, store, iterStart, other_failures, outcome, post_result, netops,
                   disturbed>>
    /\ UNCHANGED <<probeVars, postHist>>

----------------------------------------------------------------------------
(* post_to_redis and get_redis_client *)

\* current_time.py lines 137-139: show_world_timezones drops what
\* post_to_redis returned; app.py line 33 goes on to the loop (the monitor it
\* starts at line 38 shares no state with it), lines 54-55 reset the counter
AppPostReturn ==
    /\ last_successful_ip' = last_successful_ip
    /\ IF swt_ret = "first"
       THEN /\ pc' = "iter"
            /\ UNCHANGED <<consecutive_errors, outcome, other_failures>>
       ELSE /\ pc' = "sleep"
            /\ consecutive_errors' = AfterSuccess(consecutive_errors)
            /\ outcome' = "success"
            /\ other_failures' = FALSE

\* lines 176-180: post_to_redis returns ok to main
PostReturn(ok) ==
    /\ p_client' = None /\ p_attempt' = 0
    /\ grc_ret' = "none"
    /\ redis_client' = redis_client
    /\ post_result' = IF ok THEN "ok" ELSE "fail"
    /\ IF prog = "app"
       THEN AppPostReturn
       ELSE /\ pc' = "sleep"
            /\ last_successful_ip' = KnownAfterPost(ok, public_ip, last_successful_ip)
            /\ IF ok
               THEN /\ consecutive_errors' = AfterSuccess(consecutive_errors)
                    /\ outcome' = "success"
                    /\ other_failures' = FALSE
               ELSE /\ consecutive_errors' = AfterFailure(consecutive_errors)
                    /\ outcome' = "publish_fail"
                    /\ other_failures' = other_failures

\* get_redis_client returns client to the call site it came from
GrcReturn(client) ==
    /\ slept' = slept
    /\ CASE grc_ret \in {"main_init", "main_cooldown"} ->
              \* lines 152, 200
              /\ pc' = "iter"
              /\ redis_client' = client
              /\ grc_ret' = "none"
              /\ UNCHANGED <<p_client, p_attempt, last_successful_ip,
                             consecutive_errors, outcome, post_result, other_failures>>
         [] grc_ret = "post_entry" ->
              \* lines 107-109
              IF client = None
              THEN PostReturn(FALSE)
              ELSE /\ pc' = "set"
                   /\ p_client' = client
                   /\ p_attempt' = 0
                   /\ grc_ret' = "none"
                   /\ UNCHANGED <<redis_client, last_successful_ip,
                                  consecutive_errors, outcome, post_result, other_failures>>
         [] grc_ret = "post_retry" ->
              \* lines 132-135, then the next turn of the for loop
              /\ pc' = "set"
              /\ p_client' = RetryClient(client, p_client)
              /\ p_attempt' = p_attempt + 1
              /\ grc_ret' = "none"
              /\ UNCHANGED <<redis_client, last_successful_ip,
                             consecutive_errors, outcome, post_result, other_failures>>
         [] grc_ret = "swt" ->
              \* current_time.py lines 136-137
              /\ pc' = "post"
              /\ p_client' = client
              /\ p_attempt' = 0
              /\ grc_ret' = "none"
              /\ UNCHANGED <<redis_client, last_successful_ip,
                             consecutive_errors, outcome, post_result, other_failures>>

\* lines 105-121: entry of post_to_redis
PostEntry ==
    /\ pc = "post"
    /\ UNCHANGED <<monVars, stopped_at, swt_ret, checkHist>>
    /\ IF p_client = None
       THEN pc' = "grc" /\ grc_ret' = "post_entry"
       ELSE pc' = "set" /\ grc_ret' = grc_ret
    /\ p_attempt' = 0
    /\ UNCHANGED <<consecutive_errors, last_successful_ip, redis_client, public_ip,
                   p_client, _redis_client, constVars, storeUp, alive, store,
                   iterStart, other_failures, outcome, post_result, slept, netops, disturbed>>
    /\ UNCHANGED <<probeVars, postHist>>

\* lines 31-37: the cached handle is pinged before it is handed out again
GrcPing ==
    /\ pc = "grc"
    /\ UNCHANGED <<monVars, stopped_at, swt_ret>>
    /\ _redis_client # None
    /\ netops' = netops + 1
    /\ bare' = bare
    /\ IF PingOk(_redis_client)
       THEN /\ GrcReturn(_redis_client)
            /\ _redis_client' = _redis_client
            /\ checked' = checked \cup {_redis_client}
            /\ alive' = Gc(alive, redis_client', p_client', _redis_client)
       ELSE /\ _redis_client' = None
            /\ checked' = checked
            /\ pc' = "grc_connect"
            /\ alive' = Gc(alive, redis_client, p_client, None)
            /\ UNCHANGED <<consecutive_errors, last_successful_ip, redis_client,
                           p_client, p_attempt, grc_ret, outcome, post_result, slept,
                           other_failures>>
    /\ UNCHANGED <<public_ip, constVars, storeUp, store, iterStart, disturbed>>
    /\ UNCHANGED <<probeVars, postHist>>

\* the handle a new connection gets: one that no variable holds
FreshHandle == CHOOSE h \in Handles : h \notin {redis_client, p_client}

\* lines 39-70: no host, no client; otherwise connect and ping
GrcConnect ==
    /\ pc = "grc_connect" \/ (pc = "grc" /\ _redis_client = None)
    /\ UNCHANGED <<monVars, stopped_at, swt_ret>>
    /\ bare' = bare
    /\ IF HostMissing
       THEN /\ GrcReturn(None)
            /\ UNCHANGED <<_redis_client, netops, checked>>
            /\ alive' = Gc(alive, redis_client', p_client', _redis_client)
       ELSE /\ netops' = netops + 1
            /\ IF storeUp
               THEN /\ GrcReturn(FreshHandle)
                    /\ _redis_client' = FreshHandle
                    /\ checked' = checked \cup {FreshHandle}
                    /\ alive' = Gc(alive \cup {FreshHandle}, redis_client',
                                   p_client', FreshHandle)
               ELSE /\ GrcReturn(None)
                    /\ _redis_client' = _redis_client
                    /\ checked' = checked
                    /\ alive' = Gc(alive, redis_client', p_client', _redis_client)
    /\ UNCHANGED <<public_ip, constVars, storeUp, store, iterStart, disturbed>>
    /\ UNCHANGED <<probeVars, postHist>>

\* lines 123-143: one turn of the retry loop around redis_client.set
SetAttempt ==
    /\ pc = "set"
    /\ UNCHANGED <<monVars, stopped_at, swt_ret>>
    /\ slept' = slept
    /\ IF p_client = None
       THEN \* None has no set: line 139 catches the AttributeError
            /\ PostReturn(FALSE)
            /\ UNCHANGED <<store, netops, disturbed, _redis_client>>
            /\ UNCHANGED <<postHist, checkHist>>
       ELSE /\ netops' = netops + 1
            /\ bare' = IF p_client \in checked
                       THEN bare
                       ELSE bare \cup {IF p_attempt = 0 THEN "reused" ELSE "retry"}
            /\ \E fault \in BOOLEAN :
                IF ~fault /\ Healthy(p_client)
                THEN \* lines 125-127
                     /\ store' = Payload
                     /\ writes' = writes + 1
                     /\ PostReturn(TRUE)
                     /\ UNCHANGED <<set_conn_fails, set_errors, disturbed,
                                    _redis_client, checked>>
                ELSE IF fault
                THEN \* lines 139-141: an exception that is no ConnectionError
                     /\ set_errors' = set_errors + 1
                     /\ disturbed' = TRUE
                     /\ PostReturn(FALSE)
                     /\ UNCHANGED <<store, writes, set_conn_fails, _redis_client,
                                    checked>>
                ELSE \* lines 128-138: redis.ConnectionError
                     /\ set_conn_fails' = set_conn_fails + 1
                     /\ checked' = {}
                     /\ IF MayRetry(p_attempt)
                        THEN /\ pc' = "grc"
                             /\ grc_ret' = "post_retry"
                             /\ UNCHANGED <<consecutive_errors, last_successful_ip,
                                            redis_client, p_client, p_attempt,
                                            outcome, post_result, other_failures>>
                        ELSE PostReturn(FALSE)
                     /\ UNCHANGED <<store, writes, set_errors, disturbed,
                                    _redis_client>>
    /\ alive' = Gc(alive, redis_client', p_client', _redis_client')
    /\ UNCHANGED <<public_ip, constVars, storeUp, iterStart>>
    /\ UNCHANGED probeVars

----------------------------------------------------------------------------
(* scripts/app.py main and current_time.show_world_timezones *)

\* show_world_timezones, lines 97-136: the table is computed and
\* get_redis_client is entered
EnterShowWorldTimezones(site) ==
    /\ swt_ret' = site
    /\ pc' = "grc"
    /\ grc_ret' = "swt"
    /\ errors_at_start' = consecutive_errors
    /\ last_at_start' = last_successful_ip
    /\ outcome' = "none"
    /\ post_result' = "none"
    /\ slept' = 0
    /\ writes' = 0 /\ netops' = 0 /\ set_conn_fails' = 0 /\ set_errors' = 0
    /\ checked' = {} /\ bare' = {}
    /\ disturbed' = ~storeUp
    /\ UNCHANGED <<consecutive_errors, last_successful_ip, redis_client, public_ip,
                   p_client, p_attempt, _redis_client, constVars, storeUp,
                   alive, store, other_failures>>
    /\ UNCHANGED probeVars
    /\ UNCHANGED <<monVars, stopped_at>>

\* app.py line 33: the call before the loop, outside its try
AppFirst ==
    /\ pc = "a_first"
    /\ EnterShowWorldTimezones("first")

\* app.py lines 49-53: top of the loop
AppIterTop ==
    /\ pc = "iter"
    /\ prog = "app"
    /\ consecutive_errors < MaxErrors
    /\ EnterShowWorldTimezones("loop")

\* an exception leaves the call of line 33: nothing catches it
AppCrash ==
    /\ InPublish
    /\ swt_ret = "first"
    /\ pc' = "dead"
    /\ grc_ret' = "none"
    /\ p_client' = None /\ p_attempt' = 0
    /\ alive' = Gc(alive, redis_client, None, _redis_client)
    /\ UNCHANGED <<consecutive_errors, last_successful_ip, redis_client, public_ip,
                   _redis_client, constVars, storeUp, store, iterStart,
                   other_failures, outcome, post_result, slept, netops, disturbed,
                   swt_ret>>
    /\ UNCHANGED <<probeVars, postHist, checkHist>>
    /\ UNCHANGED <<monVars, stopped_at>>

----------------------------------------------------------------------------
(* The environment.  What it does to the store while get_public_ip runs is  *)
(* seen by the program only afterwards, so it moves outside the probe.      *)

EnvMayMove == pc \notin {"request", "branch"}

StoreDown ==
    /\ EnvMayMove
    /\ UNCHANGED <<monVars, stopped_at, swt_ret, checkHist>>
    /\ storeUp
    /\ storeUp' = FALSE
    /\ disturbed' = TRUE
    /\ UNCHANGED <<pc, consecutive_errors, last_successful_ip, redis_client,
                   public_ip, p_client, p_attempt, _redis_client, grc_ret,
                   constVars, alive, store, iterStart, other_failures, outcome, post_result,
                   slept, netops>>
    /\ UNCHANGED <<probeVars, postHist>>

StoreBack ==
    /\ EnvMayMove
    /\ UNCHANGED <<monVars, stopped_at, swt_ret, checkHist>>
    /\ ~storeUp
    /\ storeUp' = TRUE
    /\ UNCHANGED <<pc, consecutive_errors, last_successful_ip, redis_client,
                   public_ip, p_client, p_attempt, _redis_client, grc_ret,
                   constVars, alive, store, iterStart, other_failures, outcome, post_result,
                   slept, netops, disturbed>>
    /\ UNCHANGED <<probeVars, postHist>>

\* a connection is dropped: its handle fails every later operation
HandleDies ==
    /\ EnvMayMove
    /\ UNCHANGED <<monVars, stopped_at, swt_ret, checkHist>>
    /\ \E h \in alive : alive' = alive \ {h}
    /\ disturbed' = (disturbed \/ InPublish)
    /\ UNCHANGED <<pc, consecutive_errors, last_successful_ip, redis_client,
                   public_ip, p_client, p_attempt, _redis_client, grc_ret,
                   constVars, storeUp, store, iterStart, other_failures, outcome, post_result,
                   slept, netops>>
    /\ UNCHANGED <<probeVars, postHist>>

----------------------------------------------------------------------------
(* IPMonitor, scripts/whatsmyip.py *)

ipVars == <<stopped_at, prog, swt_ret, post_result, pc, consecutive_errors, last_successful_ip, redis_client, public_ip,
            svc, attempt, p_client, p_attempt, _redis_client, grc_ret,
            redis_host, storeUp, alive, store,
            tracing, reqs, errored, last_resp, probe_wait, errors_at_start, last_at_start,
            other_failures, outcome, slept, writes, netops,
            set_conn_fails, set_errors, checked, bare, disturbed>>

\* line 27: for service in self.ip_services, left after the last one
MonLastService(s) == s = Len(m_ip_services)

\* line 32: if ip
MonValidIp(ip) == ip # <<>>

\* changed: the first observation is reported like a change
CheckNoteNoInitial(ip, cur) ==
    IF ip = NoIp THEN "failed"
    ELSE IF ip # cur THEN "changed"
    ELSE "unchanged"

\* check_ip, lines 42-54: which of the four reports is logged
CheckNote(ip, cur) ==
    IF ip = NoIp THEN "failed"
    ELSE IF cur = NoIp THEN "initial"
    ELSE IF ip # cur THEN "changed"
    ELSE "unchanged"

\* the thread object that threading.Thread(...) creates next
NewThread == CHOOSE t \in Threads : m_pc[t] = "unborn" /\ \A o \in 1..(t - 1) : m_pc[o] # "unborn"

\* changed: monitor_loop checks before it sleeps
LoopBodyCheckFirst(run) == IF run THEN "m_request" ELSE "done"

\* lines 68-69: while self.running: time.sleep(self.check_interval)
LoopBody(run) == IF run THEN "m_wait" ELSE "done"

\* how long unit u can stay where it is: in time.sleep (line 69), in
\* requests.get (line 29), or nowhere
Blocking(u) ==
    CASE m_pc[u] = "m_wait" -> check_interval
      [] m_pc[u] = "m_request" -> request_timeout
      [] OTHER -> 0

\* start_monitoring, lines 58-65: a second start returns at once; otherwise
\* running is set and check_ip is entered
MonStart ==
    /\ m_pc[Caller] = "idle"
    /\ IF running
       THEN /\ last_call' = "noop"
            /\ UNCHANGED <<m_pc, running, m_svc, m_reqs, m_resp, sync_checks>>
       ELSE /\ \E t \in Threads : m_pc[t] = "unborn"
            /\ running' = TRUE
            /\ m_pc' = [m_pc EXCEPT ![Caller] = "m_request"]
            /\ m_svc' = [m_svc EXCEPT ![Caller] = 1]
            /\ m_reqs' = [m_reqs EXCEPT ![Caller] = NoReqs]
            /\ m_resp' = [m_resp EXCEPT ![Caller] = NoResp]
            /\ sync_checks' = 0
            /\ last_call' = last_call
    /\ UNCHANGED <<current_ip, thread, m_ip, m_note, m_old, m_slept>>
    /\ UNCHANGED ipVars

\* get_public_ip, lines 27-37: one requests.get and what the loop does with it
MonRequest(u) ==
    /\ m_pc[u] = "m_request"
    /\ \E resp \in Responses :
        LET ip == Strip(resp.body)
            accepted == resp.kind = "body" /\ MonValidIp(ip)
            done == accepted \/ MonLastService(m_svc[u])
        IN  /\ m_reqs' = IF tracing
                         THEN [m_reqs EXCEPT ![u][m_svc[u]] = @ + 1]
                         ELSE m_reqs
            /\ m_resp' = IF tracing THEN [m_resp EXCEPT ![u] = resp] ELSE m_resp
            /\ IF done
               THEN /\ m_pc' = [m_pc EXCEPT ![u] = "m_check"]
                    /\ m_ip' = [m_ip EXCEPT ![u] = IF accepted THEN ip ELSE NoIp]
                    /\ m_svc' = m_svc
               ELSE /\ m_pc' = m_pc
                    /\ m_ip' = m_ip
                    /\ m_svc' = [m_svc EXCEPT ![u] = @ + 1]
    /\ UNCHANGED <<running, current_ip, thread, m_note, m_old, m_slept, sync_checks,
                   last_call>>
    /\ UNCHANGED ipVars

\* check_ip, lines 42-54, then the unit goes on: start_monitoring to the
\* creation of the thread (line 73), monitor_loop to its loop test (line 68)
MonCheck(u) ==
    /\ m_pc[u] = "m_check"
    /\ m_note' = CheckNote(m_ip[u], current_ip)
    /\ current_ip' = IF m_note' \in {"initial", "changed"} THEN m_ip[u] ELSE current_ip
    /\ m_old' = IF tracing /\ m_note' = "changed" THEN current_ip ELSE m_old
    /\ m_pc' = [m_pc EXCEPT ![u] = IF u = Caller THEN "spawn" ELSE "m_loop"]
    /\ m_svc' = [m_svc EXCEPT ![u] = 1]
    /\ m_ip' = [m_ip EXCEPT ![u] = NoIp]
    /\ m_reqs' = [m_reqs EXCEPT ![u] = NoReqs]
    /\ m_resp' = [m_resp EXCEPT ![u] = NoResp]
    /\ m_slept' = IF u = Caller THEN m_slept ELSE [m_slept EXCEPT ![u] = FALSE]
    /\ sync_checks' = IF u = Caller THEN sync_checks + 1 ELSE sync_checks
    /\ UNCHANGED <<running, thread, last_call>>
    /\ UNCHANGED ipVars

\* start_monitoring, lines 73-75: the thread is created and started, and
\* start_monitoring returns
MonSpawn ==
    /\ m_pc[Caller] = "spawn"
    /\ thread' = NewThread
    /\ m_pc' = [m_pc EXCEPT ![Caller] = "idle", ![NewThread] = "m_loop"]
    /\ last_call' = "start"
    /\ UNCHANGED <<running, current_ip, m_svc, m_ip, m_reqs, m_resp, m_note, m_old,
                   m_slept, sync_checks>>
    /\ UNCHANGED ipVars

\* monitor_loop, line 68: while self.running, then into time.sleep
MonLoopTest(t) ==
    /\ m_pc[t] = "m_loop"
    /\ m_pc' = [m_pc EXCEPT ![t] = LoopBody(running)]
    /\ m_slept' = [m_slept EXCEPT ![t] = FALSE]
    /\ UNCHANGED <<running, current_ip, thread, m_svc, m_ip, m_reqs, m_resp,
                   m_note, m_old, sync_checks, last_call>>
    /\ UNCHANGED ipVars

\* monitor_loop, lines 69-71: the sleep ends; check_ip is entered if
\* self.running is still set, otherwise the loop test is next
MonWake(t) ==
    /\ m_pc[t] = "m_wait"
    /\ m_pc' = [m_pc EXCEPT ![t] = IF running THEN "m_request" ELSE "m_loop"]
    /\ m_slept' = [m_slept EXCEPT ![t] = running]
    /\ UNCHANGED <<running, current_ip, thread, m_svc, m_ip, m_reqs, m_resp,
                   m_note, m_old, sync_checks, last_call>>
    /\ UNCHANGED ipVars

\* stop_monitoring, line 79: self.running = False
MonStop ==
    /\ m_pc[Caller] = "idle"
    /\ running' = FALSE
    /\ m_pc' = [m_pc EXCEPT ![Caller] = "join"]
    /\ UNCHANGED <<current_ip, thread, m_svc, m_ip, m_reqs, m_resp, m_note, m_old,
                   m_slept, sync_checks, last_call>>
    /\ UNCHANGED ipVars

\* stop_monitoring, lines 80-82: join returns when the thread has ended, or
\* after join_timeout seconds when the thread stays longer where it is
MonJoin ==
    /\ m_pc[Caller] = "join"
    /\ \/ thread = None
       \/ thread # None /\ m_pc[thread] = "done"
       \/ thread # None /\ Blocking(thread) > join_timeout
    /\ m_pc' = [m_pc EXCEPT ![Caller] = "idle"]
    /\ last_call' = "stop"
    /\ UNCHANGED <<running, current_ip, thread, m_svc, m_ip, m_reqs, m_resp,
                   m_note, m_old, m_slept, sync_checks>>
    /\ UNCHANGED ipVars

\* the monitor's code as one starting caller runs it
Monitor ==
    \/ MonStart
    \/ \E u \in Units : MonRequest(u)
    \/ \E u \in Units : MonCheck(u)
    \/ MonSpawn
    \/ \E t \in Threads : MonLoopTest(t)
    \/ \E t \in Threads : MonWake(t)

----------------------------------------------------------------------------

\* the steps of scripts/public_ip.py
Program ==
    \/ MainStart
    \/ IterTop
    \/ Request
    \/ Branch
    \/ Sleep
    \/ Except
    \/ Cooldown
    \/ Backoff
    \/ PostEntry
    \/ GrcPing
    \/ GrcConnect
    \/ SetAttempt

\* the steps of scripts/app.py that are its own
App ==
    \/ AppFirst
    \/ AppIterTop
    \/ AppCrash

Next ==
    \/ Program
    \/ App
    \/ StoreDown
    \/ StoreBack
    \/ HandleDies

Spec == Init /\ [][Next]_vars

\* The main thread never stops taking steps by itself: every sleep ends and
\* every network operation returns or times out.
SpecLive == Spec /\ WF_vars(Program \/ App)

\* The probe in detail: its requests are recorded, the environment is quiet.
InitProbe == \E script \in {"public_ip", "whatsmyip"} : Start(TRUE, script)

NextProbe ==
    \/ Program
    \/ Monitor

SpecProbe == InitProbe /\ [][NextProbe]_vars

\* public_ip.py lines 207-208, app.py lines 71-73: KeyboardInterrupt reaches
\* the main thread wherever it is and ends main
Interrupt ==
    /\ pc \notin {"off", "dead", "stopped"}
    /\ pc' = "stopped"
    /\ stopped_at' = pc
    /\ UNCHANGED <<consecutive_errors, last_successful_ip, redis_client, public_ip,
                   p_client, p_attempt, _redis_client, grc_ret, swt_ret, constVars,
                   storeUp, alive, store, iterStart, other_failures, outcome,
                   post_result, slept, netops, disturbed>>
    /\ UNCHANGED <<probeVars, postHist, checkHist>>
    /\ UNCHANGED monVars

\* Stopping: the loops with the stop signal, the monitor with any sequence
\* of start_monitoring and stop_monitoring calls; the store is quiet.
InitStop == \E script \in {"public_ip", "app", "whatsmyip"} : Start(FALSE, script)

NextStop ==
    \/ Program
    \/ App
    \/ Interrupt
    \/ Monitor
    \/ MonStop
    \/ MonJoin

SpecStop == InitStop /\ [][NextStop]_vars

----------------------------------------------------------------------------
(* Properties *)

IterationOver == pc \in {"sleep", "iter"}
PublishCalled == post_result # "none"
StoreReachable == redis_host /\ ~disturbed

\* C1: an iteration that ends in success or skip leaves consecutive_errors
\* at 0, and a failing iteration (probe failure, publish failure, exception)
\* leaves it one above its value at the start of the iteration; for an
\* exception this is the value the handler sees before any cooldown reset.
C1_CounterPerIteration ==
    /\ pc = "sleep" => outcome \in {"success", "skip", "probe_fail", "publish_fail"}
    /\ (IterationOver /\ outcome \in {"success", "skip"}) => consecutive_errors = 0
    /\ (IterationOver /\ outcome \in {"probe_fail", "publish_fail"})
          => consecutive_errors = errors_at_start + 1
    /\ pc = "handler"
          => outcome = "exception" /\ consecutive_errors = errors_at_start + 1

C1_Witness ==
    /\ pc = "sleep"
    /\ outcome = "skip"
    /\ errors_at_start = 2

\* C2: after a failing iteration whose incremented counter f is below the
\* threshold, the sleep before the next probe is min(2^f, 60) seconds.
C2_BackoffAfterFailure ==
    (/\ pc = "iter"
     /\ outcome \in {"probe_fail", "publish_fail", "exception"}
     /\ errors_at_start + 1 < max_consecutive_errors)
        => slept = Min(2 ^ (errors_at_start + 1), backoff_cap)

\* C3: the 10th consecutive failing probe is followed by the 300 s cooldown
\* and the loop resumes with the counter at 0.
C3_CooldownOnTenthFailure ==
    (/\ pc = "iter"
     /\ outcome = "probe_fail"
     /\ errors_at_start + 1 = max_consecutive_errors)
        => (slept = cooldown /\ consecutive_errors = 0)

\* C4: with a reachable store and no exception, the iteration that first
\* observes an address (one that differs from the last published address)
\* sends exactly one write and records the address, and every iteration that
\* observes the recorded address again sends no write: the store already
\* holds it.
C4_OneWritePerAddress ==
    /\ writes <= 1
    /\ (IterationOver /\ public_ip # NoIp /\ outcome # "exception") =>
          IF public_ip = last_at_start
          THEN outcome = "skip" /\ writes = 0 /\ store = public_ip
          ELSE StoreReachable =>
                  /\ outcome = "success"
                  /\ writes = 1
                  /\ store = public_ip
                  /\ last_successful_ip = public_ip

C4_Witness ==
    /\ pc = "sleep"
    /\ outcome = "skip"
    /\ StoreReachable
    /\ store = public_ip
    /\ writes = 0

\* C5: last_successful_ip changes only in the step in which the publish
\* returns success, to the address that step wrote; so it is None or the
\* address the store holds; a failed publish leaves it as it was, different
\* from the address just observed, which is therefore published again.
C5_LastKnownFollowsStore ==
    /\ [](last_successful_ip = NoIp \/ last_successful_ip = store)
    /\ []((IterationOver /\ outcome = "publish_fail")
            => (last_successful_ip = last_at_start
                /\ NeedsPublish(public_ip, last_successful_ip)))
    /\ [][last_successful_ip' # last_successful_ip
            => (/\ outcome' = "success"
                /\ writes' = writes + 1
                /\ store' = public_ip
                /\ last_successful_ip' = public_ip)]_vars

C5_Witness ==
    /\ pc = "sleep"
    /\ outcome = "publish_fail"
    /\ last_successful_ip # NoIp
    /\ last_successful_ip = store

\* C6: when the store stays reachable during a publish, of the address or of
\* the clock record, the publish returns success in that call whatever the
\* state of the handles it starts with: a handle found invalid costs one
\* failed set, the loop iteration succeeds and the caller's counter is 0.
C6_ReconnectWithinCall ==
    (IterationOver /\ PublishCalled /\ StoreReachable)
        => (/\ post_result = "ok"
            /\ swt_ret # "first" => outcome = "success"
            /\ consecutive_errors = 0
            /\ set_conn_fails <= 1
            /\ set_errors = 0)

C6_Witness ==
    /\ pc = "sleep"
    /\ StoreReachable
    /\ post_result = "ok"
    /\ set_conn_fails = 1

\* C7: without a store host no ping, connect or set is ever sent by either
\* publishing loop, no handle exists, and every publish returns failure.
C7_InertWithoutHost ==
    ~redis_host =>
        /\ netops = 0
        /\ writes = 0
        /\ store = NoIp
        /\ _redis_client = None /\ redis_client = None /\ p_client = None
        /\ post_result # "ok"

C7_Witness ==
    /\ ~redis_host
    /\ pc = "sleep"
    /\ post_result = "fail"

\* C8: without a store host, and with no probe failure or exception counted,
\* the counter stays below the escalation threshold.
C8_UnconfiguredNeverEscalates ==
    (~redis_host /\ ~other_failures)
        => consecutive_errors < max_consecutive_errors

\* C9: a publish that fails with connection errors only has issued all
\* max_retries writes before it returns failure.
C9_AllRetriesBeforeFailure ==
    (/\ IterationOver
     /\ post_result = "fail"
     /\ set_errors = 0
     /\ set_conn_fails >= 1)
        => set_conn_fails = max_retries

\* C10: the probe sends its requests to the services in their fixed order;
\* a valid address ends the probe at once, so it is the answer of the first
\* service that gave one and no later service has been asked; the probe
\* returns None only when every service has been asked and left, by an
\* error or after max_retries requests.
\* The monitor's probe asks each service once and accepts any non-empty body.
Left(k) == reqs[k] >= 1 /\ (k \in errored \/ reqs[k] = probe_max_retries)

C10_FirstValidEndpointWins ==
    /\ \A u \in Units :
        /\ m_pc[u] \in {"m_request", "m_check"} =>
              \A k \in 1..Len(m_ip_services) :
                  /\ k > m_svc[u] => m_reqs[u][k] = 0
                  /\ k < m_svc[u] => m_reqs[u][k] = 1
        /\ m_pc[u] = "m_request" =>
              ~(m_resp[u].kind = "body" /\ MonValidIp(Strip(m_resp[u].body)))
        /\ (m_pc[u] = "m_check" /\ m_ip[u] # NoIp) =>
              /\ m_resp[u].kind = "body"
              /\ m_ip[u] = Strip(m_resp[u].body)
              /\ MonValidIp(m_ip[u])
              /\ m_reqs[u][m_svc[u]] = 1
        /\ (m_pc[u] = "m_check" /\ m_ip[u] = NoIp) =>
              \A k \in 1..Len(m_ip_services) : m_reqs[u][k] = 1
    /\ pc \in {"request", "branch"} =>
          \A k \in 1..Len(ip_services) :
              /\ k > svc => reqs[k] = 0
              /\ k < svc => Left(k)
    /\ pc = "request" =>
          ~(last_resp.kind = "body" /\ ValidIp(Strip(last_resp.body)))
    /\ (pc = "branch" /\ public_ip # NoIp) =>
          /\ last_resp.kind = "body"
          /\ public_ip = Strip(last_resp.body)
          /\ ValidIp(public_ip)
          /\ reqs[svc] >= 1
    /\ (pc = "branch" /\ public_ip = NoIp) =>
          \A k \in 1..Len(ip_services) : Left(k)

C10_Witness ==
    /\ pc = "branch"
    /\ svc = 2
    /\ public_ip = Strip(Body2)
    /\ reqs = <<3, 1, 0>>

\* C11: within one probe of the publishing loop a service is asked again only
\* after a timeout, at most probe_max_retries times in all and after a wait
\* of 2^attempt seconds; after a request error, a status other than 200 or a
\* malformed body the next request goes to a service not asked before.
C11_RetryOnTimeoutOnly ==
    (tracing /\ pc = "request") =>
        /\ reqs[svc] = attempt
        /\ attempt < probe_max_retries
        /\ attempt > 0 =>
              /\ last_resp.kind = "timeout"
              /\ probe_wait = 2 ^ (attempt - 1)
        /\ last_resp.kind \in {"error", "non200", "body"} => reqs[svc] = 0

\* C12: every address a probe hands back, and so every address kept as
\* current_ip or last_successful_ip or written to the store by the
\* publishing loop, is non-empty and has the shape of a dotted quad: four
\* non-empty groups of digits separated by dots.
Digits == {"0", "1", "2", "3", "4", "5", "6", "7", "8", "9"}

DottedQuad(ip) ==
    LET parts == Split(ip, ".")
    IN  /\ Len(parts) = 4
        /\ \A i \in 1..Len(parts) :
              /\ parts[i] # <<>>
              /\ \A j \in 1..Len(parts[i]) : parts[i][j] \in Digits

C12_OnlyDottedQuads ==
    /\ public_ip # NoIp => DottedQuad(public_ip)
    /\ last_successful_ip # NoIp => DottedQuad(last_successful_ip)
    /\ (prog = "public_ip" /\ store # NoIp) => DottedQuad(store)
    /\ current_ip # NoIp => DottedQuad(current_ip)

\* C18: a set issued on a handle that the publish did not obtain itself is
\* preceded, within that publish, by a ping that the handle passed: no
\* first write of a publish goes out on a handle unchecked since the
\* publish began.
C18_PingBeforeReusedWrite == "reused" \notin bare

\* C19: within one publish, once a set has raised ConnectionError the next
\* set goes out only on a handle that get_redis_client returned after that
\* failure, that is on one that passed a ping since; a retry without a handle
\* issues no write at all.
C19_RetryOnCheckedHandle ==
    /\ "retry" \notin bare
    /\ (pc = "set" /\ p_attempt > 0 /\ p_client # None) => p_client \in checked
    /\ (pc = "set" /\ p_attempt > 0) => set_conn_fails = p_attempt

C19_Witness ==
    /\ post_result = "ok"
    /\ set_conn_fails = 1
    /\ writes = 1
    /\ checked # {}

\* C20: in the clock loop an iteration whose publish returned failure is a
\* failed iteration: it does not count as a success and take the fixed sleep,
\* it leaves the counter above 0, and an iteration that resets the counter
\* is one whose publish returned success.
C20_ClockPublishFailureCounts ==
    /\ (prog = "app" /\ swt_ret = "loop" /\ post_result = "fail") =>
          /\ outcome # "success"
          /\ pc # "sleep"
          /\ consecutive_errors = errors_at_start + 1
    /\ (prog = "app" /\ swt_ret = "loop" /\ IterationOver /\ outcome = "success") =>
          post_result = "ok"

\* C13: a stop that arrives during the sleep between two iterations ends the
\* sleep: a main loop interrupted in its sleep has not slept the interval,
\* and when stop_monitoring has returned no thread of the monitor is still
\* in its sleep and the monitor is not running.
C13_StopAbortsSleep ==
    /\ (pc = "stopped" /\ stopped_at = "sleep") => slept = 0
    /\ (m_pc[Caller] = "idle" /\ last_call = "stop") =>
          /\ ~running
          /\ \A t \in Threads : m_pc[t] # "m_wait"

\* C14: whatever start_monitoring and stop_monitoring calls were made, at
\* most one thread of the monitor is alive and at most one unit is inside
\* check_ip.
LiveThreads == {t \in Threads : m_pc[t] \notin {"off", "unborn", "done"}}
InCheckIp == {u \in Units : m_pc[u] \in {"m_request", "m_check"}}

C14_AtMostOneThread ==
    /\ Cardinality(LiveThreads) <= 1
    /\ Cardinality(InCheckIp) <= 1

\* C15: a loop is stopped only between iterations: the main loop was at the
\* loop top, in a sleep or not yet in the loop when the stop took effect, not
\* inside a probe or a publish; a thread of the monitor that has ended left
\* no probe unfinished.
BetweenIterations ==
    \/ stopped_at \in {"init", "a_first", "iter", "sleep", "handler"}
    \/ stopped_at \in {"grc", "grc_connect"} /\ grc_ret \in {"main_init", "main_cooldown"}
    \/ swt_ret = "first"

C15_StopBetweenIterations ==
    /\ pc = "stopped" => BetweenIterations
    /\ \A t \in Threads :
          m_pc[t] = "done" => (m_svc[t] = 1 /\ m_ip[t] = NoIp /\ ~m_slept[t])

\* C17: a start_monitoring call that starts the monitor finishes exactly one
\* check_ip itself before it creates the thread and returns; the thread
\* begins at its loop test and enters check_ip only after a sleep of
\* check_interval that it has completed since its previous check_ip.
C17_FirstCheckSynchronous ==
    /\ [](m_pc[Caller] \in {"m_request", "m_check"} => sync_checks = 0)
    /\ [](m_pc[Caller] = "spawn" => sync_checks = 1)
    /\ []((m_pc[Caller] = "idle" /\ last_call = "start") =>
              (sync_checks = 1 /\ thread # None))
    /\ [](\A t \in Threads : m_pc[t] \in {"m_request", "m_check"} => m_slept[t])
    /\ [][\A t \in Threads :
            (m_pc[t] = "unborn" /\ m_pc'[t] # "unborn") =>
                /\ sync_checks = 1
                /\ m_pc[Caller] = "spawn" /\ m_pc'[Caller] = "idle"
                /\ m_pc'[t] = "m_loop"
                /\ thread' = t]_vars

C17_Witness ==
    /\ last_call = "start"
    /\ m_pc[Caller] = "idle"
    /\ sync_checks = 1
    /\ current_ip # NoIp
    /\ \E t \in Threads : m_pc[t] = "m_check" /\ m_slept[t] /\ thread = t

\* C16: without a stop signal, whatever the probes and the store answer and
\* whatever exceptions are raised inside iterations, the loop does not end:
\* main is never left once the loop has been entered, and from every point
\* of an iteration the loop top is reached again.
InLoop == pc \notin {"a_first", "dead"} /\ swt_ret # "first"

C16_LoopNeverTerminates ==
    /\ [](swt_ret # "first" => pc \notin {"dead", "stopped"})
    /\ (InLoop ~> pc = "iter")

C16_Witness ==
    /\ pc = "iter"
    /\ outcome = "exception"
    /\ slept = cooldown
    /\ errors_at_start = max_consecutive_errors - 1

\* C21: check_ip leaves current_ip alone when the probe failed and sets it
\* to the observed address when the probe succeeded; it reports "changed",
\* naming the old and the new address, exactly when the probe succeeded with
\* an address different from a current_ip that was set: not on the first
\* observation, not when the address is the same.
C21_ChangeReport ==
    [][\A u \in Units :
        (m_pc[u] = "m_check" /\ m_pc'[u] # "m_check") =>
            /\ m_ip[u] = NoIp => (current_ip' = current_ip /\ m_note' = "failed")
            /\ m_ip[u] # NoIp => current_ip' = m_ip[u]
            /\ m_note' = "changed" <=>
                  (m_ip[u] # NoIp /\ current_ip # NoIp /\ m_ip[u] # current_ip)
            /\ m_note' = "changed" =>
                  (m_old' = current_ip /\ current_ip' = m_ip[u] /\ m_old' # current_ip')
            /\ m_note' = "initial" <=> (m_ip[u] # NoIp /\ current_ip = NoIp)
            /\ m_note' = "unchanged" <=> (m_ip[u] # NoIp /\ m_ip[u] = current_ip)]_vars

C21_Witness ==
    /\ m_note = "changed"
    /\ m_old = Body1
    /\ current_ip = Strip(Body2)
    /\ \E t \in Threads : m_pc[t] = "m_loop"

\* C22: whenever an iteration of a poll loop starts, consecutive_errors is
\* below max_consecutive_errors: the counter does not pass the threshold
\* without the cooldown and its reset having been taken.
C22_CounterBelowThreshold ==
    /\ errors_at_start < max_consecutive_errors
    /\ pc \in {"iter", "request"} => consecutive_errors < max_consecutive_errors

\* C23: every call does a bounded amount of work: a probe asks the services
\* in order, each at most probe_max_retries times in a row, and never goes
\* back to one; a publish issues at most max_retries set calls and asks at
\* most max_retries - 1 times for a reconnect; and every iteration that has
\* begun its probe or its publish reaches the sleep that ends it.
SetCalls == writes + set_conn_fails + set_errors
AtWork == (pc \in {"request", "branch"} \/ InPublish) /\ swt_ret # "first"
AtSleep == pc \in {"sleep", "handler"}

C23_BoundedWork ==
    /\ [](pc = "request" =>
            (svc \in 1..Len(ip_services) /\ attempt \in 0..(probe_max_retries - 1)))
    /\ [][(pc = "request" /\ pc' = "request") =>
            \/ svc' = svc /\ attempt' = attempt + 1
            \/ svc' = svc + 1 /\ attempt' = 0]_vars
    /\ [](SetCalls <= max_retries)
    /\ [](pc = "set" => p_attempt <= max_retries - 1)
    /\ []((pc \in {"grc", "grc_connect"} /\ grc_ret = "post_retry") =>
            p_attempt + 1 <= max_retries - 1)
    /\ (AtWork ~> AtSleep)

C23_Witness ==
    /\ pc = "sleep"
    /\ post_result = "fail"
    /\ set_conn_fails = max_retries
    /\ writes = 0

====
